---- MODULE Spec2Model ----
(***************************************************************************)
(* A model of the chat relay of src/main.rs: the session store             *)
(* (Handler::chat_histories), the two command paths (legacy text message   *)
(* and application command), Handler::chat, Handler::clear and the error   *)
(* wrappers around them.                                                   *)
(*                                                                         *)
(* A Rust String is modelled as the sequence of its UTF-8 bytes, so that   *)
(* len(), byte slicing and is_char_boundary are what they are in the code. *)
(***************************************************************************)
EXTENDS Integers, Sequences, FiniteSets, TLC

(***************************************************************************)
(* Bounds of the model.                                                    *)
(***************************************************************************)
\* The number of gateway events of one behaviour of Spec.
NumEvents == 3
\* The number of gateway events of one behaviour of SpecRouter.
RouterEvents == 1
\* The number of tasks that run at the same time.
MaxInFlight == 2
\* The number of events delivered under SpecFair.
FairEvents == 2
\* The number of events delivered under SpecMixed.
MixedEvents == 2
\* The number of events delivered under SpecDelivery.
DeliveryEvents == 2

Slots == 1..MaxInFlight

(***************************************************************************)
(* String literals of the source, as UTF-8 bytes.                          *)
(***************************************************************************)
\* "\n\nPrompt from " (main.rs:132)
PromptFromSep == <<10, 10, 80, 114, 111, 109, 112, 116, 32, 102, 114, 111, 109, 32>>
\* ": "
ColonSpace == <<58, 32>>
\* "\n\n"
TwoNewlines == <<10, 10>>
\* "\n"
Newline == <<10>>
\* "Thinking..." (main.rs:316)
Thinking == <<84, 104, 105, 110, 107, 105, 110, 103, 46, 46, 46>>
\* "An error occurred" (main.rs:207, 270)
AnErrorOccurred == <<65, 110, 32, 101, 114, 114, 111, 114, 32, 111, 99, 99, 117, 114, 114, 101, 100>>
\* "Chat history cleared." (main.rs:228, 286)
ChatHistoryCleared == <<67, 104, 97, 116, 32, 104, 105, 115, 116, 111, 114, 121, 32, 99, 108, 101, 97, 114, 101, 100, 46>>
\* "Model should be present and be one of: `davinci`, `curie`, `babbage`, and `ada`." (main.rs:300)
ModelShouldBePresent == <<77, 111, 100, 101, 108, 32, 115, 104, 111, 117, 108, 100, 32, 98, 101, 32, 112, 114, 101, 115, 101, 110, 116, 32, 97, 110, 100, 32, 98, 101, 32, 111, 110, 101, 32, 111, 102, 58, 32, 96, 100, 97, 118, 105, 110, 99, 105, 96, 44, 32, 96, 99, 117, 114, 105, 101, 96, 44, 32, 96, 98, 97, 98, 98, 97, 103, 101, 96, 44, 32, 97, 110, 100, 32, 96, 97, 100, 97, 96, 46>>
\* "Model should be one of: `davinci`, `curie`, `babbage`, and `ada`. Found `" (main.rs:304)
ModelShouldBeOnePrefix == <<77, 111, 100, 101, 108, 32, 115, 104, 111, 117, 108, 100, 32, 98, 101, 32, 111, 110, 101, 32, 111, 102, 58, 32, 96, 100, 97, 118, 105, 110, 99, 105, 96, 44, 32, 96, 99, 117, 114, 105, 101, 96, 44, 32, 96, 98, 97, 98, 98, 97, 103, 101, 96, 44, 32, 97, 110, 100, 32, 96, 97, 100, 97, 96, 46, 32, 70, 111, 117, 110, 100, 32, 96>>
\* "Only `davinci` works. Found `" (main.rs:308)
OnlyDavinciPrefix == <<79, 110, 108, 121, 32, 96, 100, 97, 118, 105, 110, 99, 105, 96, 32, 119, 111, 114, 107, 115, 46, 32, 70, 111, 117, 110, 100, 32, 96>>
\* "`."
BacktickDot == <<96, 46>>
\* "A prompt is needed to give to the AI." (main.rs:313)
PromptNeeded == <<65, 32, 112, 114, 111, 109, 112, 116, 32, 105, 115, 32, 110, 101, 101, 100, 101, 100, 32, 116, 111, 32, 103, 105, 118, 101, 32, 116, 111, 32, 116, 104, 101, 32, 65, 73, 46>>
\* "davinci", "curie", "babbage", "ada" (main.rs:302)
davinci == <<100, 97, 118, 105, 110, 99, 105>>
curie == <<99, 117, 114, 105, 101>>
babbage == <<98, 97, 98, 98, 97, 103, 101>>
ada == <<97, 100, 97>>
\* "-clear" (main.rs:284)
DashClear == <<45, 99, 108, 101, 97, 114>>
\* "-chat " (main.rs:290)
DashChatSp == <<45, 99, 104, 97, 116, 32>>

\* const MAX_PROMPT_LEN: usize = 2000 (main.rs:127)
MAX_PROMPT_LEN == 2000

(***************************************************************************)
(* Option<T>: None is <<>>, Some(x) is <<x>>.                              *)
(***************************************************************************)
None == <<>>
Some(x) == <<x>>
IsSome(o) == Len(o) = 1
Unwrap(o) == o[1]

(***************************************************************************)
(* str operations.                                                         *)
(***************************************************************************)
\* str::starts_with
StartsWith(s, p) == Len(s) >= Len(p) /\ SubSeq(s, 1, Len(p)) = p

\* char::is_whitespace on the characters the model's bodies are made of: the
\* ASCII white space; every byte of a multi-byte character is >= 128.
IsWhitespace(b) == b \in {9, 10, 11, 12, 13, 32}

\* The 1-based position of the first white space byte of s at or after `from`,
\* 0 when there is none.
FirstWhitespace(s, from) ==
    IF \E i \in from..Len(s) : IsWhitespace(s[i])
    THEN CHOOSE i \in from..Len(s) :
            /\ IsWhitespace(s[i])
            /\ \A j \in from..(i - 1) : ~IsWhitespace(s[j])
    ELSE 0

\* s.splitn(3, |c: char| c.is_whitespace()) collected: one to three pieces,
\* the last one holding the rest of s unsplit.
Splitn3(s) ==
    LET w1 == FirstWhitespace(s, 1) IN
    IF w1 = 0 THEN <<s>>
    ELSE LET w2 == FirstWhitespace(s, w1 + 1) IN
         IF w2 = 0
         THEN <<SubSeq(s, 1, w1 - 1), SubSeq(s, w1 + 1, Len(s))>>
         ELSE <<SubSeq(s, 1, w1 - 1), SubSeq(s, w1 + 1, w2 - 1),
                SubSeq(s, w2 + 1, Len(s))>>

\* str::is_char_boundary(index), index counted from 0: the start, the end, or
\* a byte that is not a UTF-8 continuation byte (0x80..0xBF).
IsCharBoundary(s, index) ==
    \/ index = 0
    \/ index = Len(s)
    \/ /\ index < Len(s)
       /\ (s[index + 1] < 128 \/ s[index + 1] >= 192)

(***************************************************************************)
(* The prompt assembler of Handler::chat (main.rs:129-139).                *)
(***************************************************************************)
\* format!("{saved_history}\n\nPrompt from {user_name}: {prompt}")
HistoryAndPrompt(saved_history, user_name, prompt) ==
    saved_history \o PromptFromSep \o user_name \o ColonSpace \o prompt

\* slice_prompt_start
SlicePromptStart(history_and_prompt) ==
    IF Len(history_and_prompt) > MAX_PROMPT_LEN
    THEN Len(history_and_prompt) - MAX_PROMPT_LEN
    ELSE 0

\* history_and_prompt[slice_prompt_start..].to_owned(): the byte slice when
\* the start is a character boundary, a panic otherwise.
SliceFrom(s, start) ==
    IF IsCharBoundary(s, start)
    THEN [ok |-> TRUE, text |-> SubSeq(s, start + 1, Len(s))]
    ELSE [ok |-> FALSE, text |-> <<>>]

\* relevant_history_with_prompt
RelevantHistoryWithPrompt(saved_history, user_name, prompt) ==
    LET history_and_prompt == HistoryAndPrompt(saved_history, user_name, prompt)
    IN  SliceFrom(history_and_prompt, SlicePromptStart(history_and_prompt))

\* A record that keeps the user's line only.
ExchangeRecord_PromptOnly(user_name, prompt, model, choice_0_text) ==
    TwoNewlines \o user_name \o ColonSpace \o prompt

\* format!("\n\n{user_name}: {prompt}\n{model}: {choice_0_text}") (main.rs:168)
ExchangeRecord(user_name, prompt, model, choice_0_text) ==
    TwoNewlines \o user_name \o ColonSpace \o prompt
        \o Newline \o model \o ColonSpace \o choice_0_text

(***************************************************************************)
(* serde_json::Value, as far as the response traversal looks at it.        *)
(***************************************************************************)
JNull == [t |-> "null"]
JString(s) == [t |-> "string", s |-> s]
JArray(a) == [t |-> "array", a |-> a]
\* o: a function from the keys (strings) to the values
JObject(o) == [t |-> "object", o |-> o]

\* The traversal of main.rs:159-166. Every step is an .expect(): the result
\* is the text, or the panic of the first step that finds what it does not
\* expect.
Choice0Text(outcome) ==
    IF outcome.t # "object" THEN [ok |-> FALSE, text |-> <<>>, panic |-> "an object"]
    ELSE IF "choices" \notin DOMAIN outcome.o
    THEN [ok |-> FALSE, text |-> <<>>, panic |-> "choices to be present"]
    ELSE LET choices == outcome.o["choices"] IN
    IF choices.t # "array" THEN [ok |-> FALSE, text |-> <<>>, panic |-> "an array"]
    ELSE IF Len(choices.a) = 0
    THEN [ok |-> FALSE, text |-> <<>>, panic |-> "choice to be present"]
    ELSE LET choice == choices.a[1] IN
    IF choice.t # "object" THEN [ok |-> FALSE, text |-> <<>>, panic |-> "an object"]
    ELSE IF "text" \notin DOMAIN choice.o
    THEN [ok |-> FALSE, text |-> <<>>, panic |-> "text to be present"]
    ELSE LET text == choice.o["text"] IN
    IF text.t # "string" THEN [ok |-> FALSE, text |-> <<>>, panic |-> "a string"]
    ELSE [ok |-> TRUE, text |-> text.s, panic |-> ""]

(***************************************************************************)
(* What the environment can hand to a handler.                             *)
(***************************************************************************)
\* UserId values of the message authors.
UserIds == {1, 2}

\* "al", "zoé": the authors' user names.
UserName(user_id) == IF user_id = 1 THEN <<97, 108>> ELSE <<122, 111, 195, 169>>

\* "hi", "again"
PromptHi == <<104, 105>>
PromptAgain == <<97, 103, 97, 105, 110>>
\* A prompt of MAX_PROMPT_LEN - 3 bytes, "xxx...": with it the concatenation
\* exceeds the window whatever the transcript, and the cut falls on the byte
\* that precedes ": " in "Prompt from {user_name}: ".
PromptLong == [i \in 1..(MAX_PROMPT_LEN - 3) |-> 120]
\* "ok": the text of a well-formed completion
TextOk == <<111, 107>>

\* "gpt4": a model token that is not on the allow-list.
gpt4 == <<103, 112, 116, 52>>

\* Bodies of legacy text messages.
\* "-chat davinci"
BodyNoPrompt == DashChatSp \o davinci
\* "-chat curie hi"
BodyCurie == DashChatSp \o curie \o <<32>> \o PromptHi
\* "-chat gpt4 hi"
BodyGpt4 == DashChatSp \o gpt4 \o <<32>> \o PromptHi
\* "-chat " (the model token is empty)
BodyNoModel == DashChatSp
\* "-clear now", "-chat", "hello"
BodyClearNow == DashClear \o <<32, 110, 111, 119>>
BodyChatAlone == <<45, 99, 104, 97, 116>>
BodyHello == <<104, 101, 108, 108, 111>>
\* "-chat davinci ": nothing but one white space after the model token
BodyTrailingSpace == DashChatSp \o davinci \o <<32>>

ChatHi == DashChatSp \o davinci \o <<32>> \o PromptHi
ChatLong == DashChatSp \o davinci \o <<32>> \o PromptLong

\* CommandDataOption, its name and value.
Option(name, value) == [name |-> name, value |-> value]

\* Message events (ui discord_classic) with the given bodies.
Messages(bodies) ==
    { [ui |-> "discord_classic", author |-> u, content |-> c,
       name |-> "", options |-> <<>>] : u \in UserIds, c \in bodies }

\* ApplicationCommandInteraction events (ui discord_appcomm) with the given
\* data: the command name and its options.
Appcomms(data) ==
    { [ui |-> "discord_appcomm", author |-> u, content |-> <<>>,
       name |-> d.name, options |-> d.options] : u \in UserIds, d \in data }

ChatAgain ==
    [name |-> "chat",
     options |-> <<Option("model", davinci), Option("prompt", PromptAgain)>>]

\* The events of SpecRouter: every shape of message body and of command data.
RouterGatewayEvents ==
    Messages({ DashClear, ChatHi, ChatLong, BodyNoPrompt, BodyCurie, BodyGpt4,
               BodyNoModel, BodyClearNow, BodyChatAlone, BodyHello,
               BodyTrailingSpace })
    \cup
    Appcomms({ [name |-> "clear", options |-> <<>>],
               [name |-> "other", options |-> <<>>],
               [name |-> "chat", options |-> <<Option("prompt", PromptAgain)>>],
               [name |-> "chat", options |-> <<Option("model", davinci)>>],
               ChatAgain,
               [name |-> "chat",
                options |-> <<Option("model", davinci), Option("prompt", PromptLong)>>] })

\* The events of Spec: the well-formed commands.
GatewayEvents ==
    Messages({DashClear, ChatHi, ChatLong}) \cup Appcomms({ChatAgain})

\* options.iter().find(|o| o.name == name), mapped to the option's value.
FindOption(options, name) ==
    IF \E i \in 1..Len(options) : options[i].name = name
    THEN Some(options[CHOOSE i \in 1..Len(options) :
                        /\ options[i].name = name
                        /\ \A j \in 1..(i - 1) : options[j].name # name].value)
    ELSE None

\* What the completion round trip can end in: send() fails, the body is not
\* JSON, or a JSON value of any shape.
BackendOutcomes ==
    << [kind |-> "send_err", value |-> JNull],
       [kind |-> "body_err", value |-> JNull],
       [kind |-> "json", value |-> JNull],
       [kind |-> "json", value |-> JObject([error |-> JString(<<>>)])],
       [kind |-> "json", value |-> JObject([choices |-> JNull])],
       [kind |-> "json", value |-> JObject([choices |-> JArray(<<>>)])],
       [kind |-> "json", value |-> JObject([choices |-> JArray(<<JNull>>)])],
       [kind |-> "json",
        value |-> JObject([choices |-> JArray(<<JObject([index |-> JNull])>>)])],
       [kind |-> "json",
        value |-> JObject([choices |-> JArray(<<JObject([text |-> JNull])>>)])],
       [kind |-> "json",
        value |-> JObject([choices |-> JArray(<<JObject([text |-> JString(TextOk)])>>)])] >>

(***************************************************************************)
(* Result<T, Option<Cow<'static, str>>>.                                   *)
(***************************************************************************)
Ok(v) == [ok |-> TRUE, v |-> v, e |-> None]
Err(e) == [ok |-> FALSE, v |-> <<>>, e |-> e]

(***************************************************************************)
(* The legacy text grammar of Handler::handle_message (main.rs:284-314).   *)
(***************************************************************************)
\* A gate that checks the allow-list only.
ModelGate_AllowListOnly(model) ==
    IF model \notin {davinci, curie, babbage, ada}
    THEN Some(ModelShouldBeOnePrefix \o model \o BacktickDot)
    ELSE None

\* main.rs:302-309: the validation failure the model token earns, if any.
ModelGate(model) ==
    IF model \notin {davinci, curie, babbage, ada}
    THEN Some(ModelShouldBeOnePrefix \o model \o BacktickDot)
    ELSE IF model # davinci
    THEN Some(OnlyDavinciPrefix \o model \o BacktickDot)
    ELSE None

\* A grammar that takes every body that begins with "-clear" for a clear.
ParseMessage_PrefixClear(content) ==
    LET pieces == Splitn3(content)
        route(r, err, model, prompt) ==
            [route |-> r, err |-> err, model |-> model, prompt |-> prompt]
    IN  IF StartsWith(content, DashClear) THEN route("clear", <<>>, <<>>, <<>>)
        ELSE IF ~StartsWith(content, DashChatSp) THEN route("ignore", <<>>, <<>>, <<>>)
        ELSE IF Len(pieces) < 2 THEN route("error", ModelShouldBePresent, <<>>, <<>>)
        ELSE IF IsSome(ModelGate(pieces[2]))
        THEN route("error", Unwrap(ModelGate(pieces[2])), pieces[2], <<>>)
        ELSE IF Len(pieces) < 3 THEN route("error", PromptNeeded, pieces[2], <<>>)
        ELSE route("chat", <<>>, pieces[2], pieces[3])

\* What handle_message makes of a message body before it awaits anything:
\* "clear", "ignore" (return Ok(())), "error" (return Err(Some(err))), or
\* "chat" with the model and the prompt.
ParseMessage(content) ==
    LET pieces == Splitn3(content)
        route(r, err, model, prompt) ==
            [route |-> r, err |-> err, model |-> model, prompt |-> prompt]
    IN  IF content = DashClear THEN route("clear", <<>>, <<>>, <<>>)
        ELSE IF ~StartsWith(content, DashChatSp) THEN route("ignore", <<>>, <<>>, <<>>)
        ELSE IF Len(pieces) < 2 THEN route("error", ModelShouldBePresent, <<>>, <<>>)
        ELSE IF IsSome(ModelGate(pieces[2]))
        THEN route("error", Unwrap(ModelGate(pieces[2])), pieces[2], <<>>)
        ELSE IF Len(pieces) < 3 THEN route("error", PromptNeeded, pieces[2], <<>>)
        ELSE route("chat", <<>>, pieces[2], pieces[3])

\* A wrapper that drops the handler's message.
FailureMessage_Generic(e0) == AnErrorOccurred

\* e0.as_ref().map(|e| e.as_ref()).unwrap_or("An error occurred")
\* (main.rs:207, 270)
FailureMessage(e0) == IF IsSome(e0) THEN Unwrap(e0) ELSE AnErrorOccurred


(***************************************************************************)
(* The environments the specifications run the handlers in: the events the *)
(* gateway delivers and how many, whether a call to the gateway can fail,  *)
(* whether build_openai_client() can, and the outcomes of the completion   *)
(* round trip (indices of BackendOutcomes).                                *)
(***************************************************************************)
\* Spec: the well-formed commands of two users, tasks interleaved; the
\* gateway and the client construction do not fail; the backend fails,
\* answers with an error object, or answers well.
SessionEnv ==
    [events |-> GatewayEvents, limit |-> NumEvents,
     gateway |-> {TRUE}, client |-> {TRUE}, backend |-> {1, 4, 10}]

\* SpecFair: chats and clears of two users on both interfaces, tasks
\* interleaved; the backend answers in any way, or never.
FairEnv ==
    [events |-> Messages({DashClear, ChatHi}) \cup Appcomms({ChatAgain}),
     limit |-> FairEvents,
     gateway |-> {TRUE}, client |-> {TRUE}, backend |-> {1, 4, 10}]

\* SpecMixed: the well-formed commands among messages that are no commands.
MixedEnv ==
    [events |-> Messages({DashClear, ChatHi, BodyClearNow, BodyChatAlone, BodyHello})
                    \cup Appcomms({ChatAgain}),
     limit |-> MixedEvents,
     gateway |-> {TRUE}, client |-> {TRUE}, backend |-> {1, 4, 10}]

\* SpecDelivery: the well-formed commands, tasks interleaved; every call to
\* the gateway succeeds or fails; the backend fails or answers well.
DeliveryEnv ==
    [events |-> GatewayEvents, limit |-> DeliveryEvents,
     gateway |-> BOOLEAN, client |-> {TRUE}, backend |-> {1, 10}]

\* SpecRouter: every event shape and every outcome of every call.
RouterEnv ==
    [events |-> RouterGatewayEvents, limit |-> RouterEvents,
     gateway |-> BOOLEAN, client |-> BOOLEAN, backend |-> 1..Len(BackendOutcomes)]

(***************************************************************************)
(* State.                                                                  *)
(***************************************************************************)
VARIABLES
    hs,                   \* the tasks: the position and the locals of each
    dispatched,           \* the number of events the gateway has delivered
    chat_histories,       \* the HashMap<UserId, Arc<..>>: user |-> allocation
    chat_histories_lock,  \* the task holding the Mutex around the map, or 0
    arcs,                 \* the live Arc<Mutex<String>> allocations:
                          \*   id |-> [data: the String, locked_by: task or 0]
    next_arc,             \* the identity of the next allocation
    map_ops               \* history: the operations on the map in the order
                          \*   they took place: the event, "entry" or "remove",
                          \*   the user, the allocation the entry held or was
                          \*   given (0: none), the length of its String

vars == <<hs, dispatched, chat_histories, chat_histories_lock, arcs, next_arc, map_ops>>

NoEvent == [ui |-> "none", author |-> 0, content |-> <<>>, name |-> "", options |-> <<>>]

\* A task that was not spawned yet.
IdleTask ==
    [pc |-> "idle", ev |-> NoEvent,
     id |-> 0,                                \* msg.id / interaction.id
     after |-> {},                            \* history: the events that had ended
                                              \*   when this one was delivered
     model |-> <<>>, prompt |-> <<>>,
     history |-> None,                        \* the Arc cloned at main.rs:119
     locked_history |-> <<>>,                 \* main.rs:129
     relevant_history_with_prompt |-> None,   \* main.rs:130
     outcome |-> 0,                           \* how the round trip ended: an
                                              \*   index of BackendOutcomes, 0: not yet
     choice_0_text |-> <<>>,                  \* main.rs:159
     in_progress_message |-> None,            \* main.rs:316
     chat_ret |-> None,                       \* what Handler::chat returned
     result |-> None,                         \* what handle_message/handle_appcomm returned
     out |-> <<>>,                            \* the calls made to the gateway, in order
     posts |-> 0,                             \* completion requests sent
     panic |-> ""]

\* build_client (main.rs:65-73): chat_histories: Mutex::new(HashMap::new())
Init ==
    /\ hs = [s \in Slots |-> IdleTask]
    /\ dispatched = 0
    /\ chat_histories = <<>>
    /\ chat_histories_lock = 0
    /\ arcs = <<>>
    /\ next_arc = 1
    /\ map_ops = <<>>

\* A call to the gateway and whether it succeeded.
GatewayCall(call, content, ok) == [call |-> call, content |-> content, ok |-> ok]

\* The allocations some Arc still points to: the values of the map and the
\* clones held by running tasks.
LiveArcs(map, tasks) ==
    {map[u] : u \in DOMAIN map}
        \cup {Unwrap(tasks[s].history) : s \in {x \in Slots : IsSome(tasks[x].history)}}

\* Arc's drop: an allocation nothing points to any more is freed.
Reclaim(allocs, map, tasks) ==
    [id \in DOMAIN allocs \cap LiveArcs(map, tasks) |-> allocs[id]]

\* A task's locals once Handler::chat has returned or unwound.
LeaveChat(task) ==
    [task EXCEPT !.history = None, !.locked_history = <<>>,
                 !.relevant_history_with_prompt = None, !.choice_0_text = <<>>]

\* A task that has ended: its handler returned, or it panicked.
Ended(task) == task.pc \in {"done", "panicked"}
Running(task) == task.pc \notin {"idle", "done", "panicked"}

(***************************************************************************)
(* EventHandler::message / interaction_create (main.rs:377-424): the       *)
(* gateway hands the events over one at a time and every event runs as a   *)
(* task of its own. A task takes a slot no one ran in yet or, when there   *)
(* is none, the slot of the task that ended the longest ago.               *)
(***************************************************************************)
TargetSlot ==
    IF \E s \in Slots : hs[s].pc = "idle"
    THEN CHOOSE s \in Slots : hs[s].pc = "idle" /\ \A x \in Slots : hs[x].pc = "idle" => s <= x
    ELSE IF \E s \in Slots : Ended(hs[s])
    THEN CHOOSE s \in Slots : Ended(hs[s]) /\ \A x \in Slots : Ended(hs[x]) => hs[s].id <= hs[x].id
    ELSE 0

Dispatch(s, env) ==
    /\ dispatched < env.limit
    /\ s = TargetSlot
    /\ dispatched' = dispatched + 1
    /\ \E ev \in env.events :
         hs' = [hs EXCEPT ![s] =
                  [IdleTask EXCEPT
                      !.pc = "begin", !.ev = ev, !.id = dispatched + 1,
                      !.after = (1..dispatched)
                                  \ {hs[x].id : x \in {y \in Slots : Running(hs[y])}}]]
    /\ UNCHANGED <<chat_histories, chat_histories_lock, arcs, next_arc, map_ops>>

(***************************************************************************)
(* Handler::handle_message up to its first await (main.rs:283-315).        *)
(***************************************************************************)
HandleMessage(s) ==
    /\ hs[s].pc = "begin"
    /\ hs[s].ev.ui = "discord_classic"
    /\ LET p == ParseMessage(hs[s].ev.content) IN
       hs' = [hs EXCEPT ![s] =
                CASE p.route = "clear" -> [@ EXCEPT !.pc = "clear_lock"]
                  [] p.route = "ignore" -> [@ EXCEPT !.pc = "done", !.result = Some(Ok(<<>>))]
                  [] p.route = "error" ->
                       [@ EXCEPT !.pc = "error_reply", !.model = p.model,
                                 !.result = Some(Err(Some(p.err)))]
                  [] OTHER ->
                       [@ EXCEPT !.pc = "thinking", !.model = p.model,
                                 !.prompt = p.prompt]]
    /\ UNCHANGED <<dispatched, chat_histories, chat_histories_lock, arcs, next_arc, map_ops>>

\* main.rs:316-319: the placeholder; its failure is logged and ignored.
SendThinking(s, env) ==
    /\ hs[s].pc = "thinking"
    /\ \E ok \in env.gateway :
         hs' = [hs EXCEPT ![s] =
                  [@ EXCEPT !.pc = "chat_lock_histories",
                            !.out = Append(@, GatewayCall("reply", Thinking, ok)),
                            !.in_progress_message =
                                IF ok THEN Some(Thinking) ELSE None]]
    /\ UNCHANGED <<dispatched, chat_histories, chat_histories_lock, arcs, next_arc, map_ops>>

(***************************************************************************)
(* Handler::handle_appcomm up to Handler::chat (main.rs:220-243).          *)
(***************************************************************************)
HandleAppcomm(s, env) ==
    /\ hs[s].pc = "begin"
    /\ hs[s].ev.ui = "discord_appcomm"
    /\ \E deferred \in env.gateway :
         LET model == FindOption(hs[s].ev.options, "model")
             prompt == FindOption(hs[s].ev.options, "prompt")
             called == [hs[s] EXCEPT !.out = Append(@, GatewayCall("defer", <<>>, deferred))]
         IN  hs' = [hs EXCEPT ![s] =
                CASE ~deferred ->
                       [called EXCEPT !.pc = "error_reply", !.result = Some(Err(None))]
                  [] deferred /\ hs[s].ev.name = "clear" ->
                       [called EXCEPT !.pc = "clear_lock"]
                  [] deferred /\ hs[s].ev.name \notin {"clear", "chat"} ->
                       [called EXCEPT !.pc = "done", !.result = Some(Ok(<<>>))]
                  [] deferred /\ hs[s].ev.name = "chat"
                              /\ (~IsSome(model) \/ ~IsSome(prompt)) ->
                       [called EXCEPT !.pc = "error_reply", !.result = Some(Err(None))]
                  [] OTHER ->
                       [called EXCEPT !.pc = "chat_lock_histories",
                                      !.model = Unwrap(model),
                                      !.prompt = Unwrap(prompt)]]
    /\ UNCHANGED <<dispatched, chat_histories, chat_histories_lock, arcs, next_arc, map_ops>>

(***************************************************************************)
(* Handler::chat (main.rs:114-171).                                        *)
(***************************************************************************)
\* A guard of the map that lives to the end of Handler::chat.
HistoriesGuardAfterEntry_Held(s) == s

\* The holder of the map's Mutex once the block of main.rs:117-120 is left:
\* the guard `history` goes out of scope there.
HistoriesGuardAfterEntry(s) == 0

\* A guard bound to a local that lives to the end of Handler::chat.
HistoryGuardAfterClone_Held(s) == s

\* The holder of the session's Mutex after `history.lock().clone()`
\* (main.rs:129): the guard is a temporary of that statement.
HistoryGuardAfterClone(s) == 0

\* The same after `history.lock().push_str(..)` (main.rs:168).
HistoryGuardAfterPush(s) == 0

\* self.chat_histories.lock() (main.rs:118)
ChatLockHistories(s) ==
    /\ hs[s].pc = "chat_lock_histories"
    /\ chat_histories_lock = 0
    /\ chat_histories_lock' = s
    /\ hs' = [hs EXCEPT ![s].pc = "chat_entry"]
    /\ UNCHANGED <<dispatched, chat_histories, arcs, next_arc, map_ops>>

\* The Arc that history.entry(user_id).or_default() yields (main.rs:119):
\* the one of the entry, or a new allocation when the entry is vacant.
EntryOrDefault(map, user_id, fresh) ==
    IF user_id \in DOMAIN map THEN map[user_id] ELSE fresh

\* Arc::clone(history.entry(user_id).or_default()), the end of the block, and
\* build_openai_client() (main.rs:119-125), which fails or not.
ChatEntry(s, env) ==
    /\ hs[s].pc = "chat_entry"
    /\ chat_histories_lock = s
    /\ LET user_id == hs[s].ev.author
           arc == EntryOrDefault(chat_histories, user_id, next_arc)
           vacant == arc \notin DOMAIN arcs
           map == IF user_id \in DOMAIN chat_histories
                  THEN [chat_histories EXCEPT ![user_id] = arc]
                  ELSE chat_histories @@ (user_id :> arc)
           allocs == IF vacant
                     THEN arcs @@ (arc :> [data |-> <<>>, locked_by |-> 0])
                     ELSE arcs
       IN  /\ chat_histories' = map
           /\ next_arc' = IF vacant THEN next_arc + 1 ELSE next_arc
           /\ chat_histories_lock' = HistoriesGuardAfterEntry(s)
           /\ map_ops' = Append(map_ops, [id |-> hs[s].id, op |-> "entry",
                                          user |-> user_id, arc |-> arc,
                                          len |-> Len(allocs[arc].data)])
           /\ \E built \in env.client :
                LET tasks == [hs EXCEPT ![s] =
                        IF built
                        THEN [@ EXCEPT !.pc = "chat_lock_history", !.history = Some(arc)]
                        ELSE [@ EXCEPT !.pc = "chat_returned",
                                       !.chat_ret = Some(Err(None))]]
                IN  /\ hs' = tasks
                    /\ arcs' = Reclaim(allocs, map, tasks)
    /\ UNCHANGED dispatched

\* history.lock() (main.rs:129)
ChatLockHistory(s) ==
    /\ hs[s].pc = "chat_lock_history"
    /\ arcs[Unwrap(hs[s].history)].locked_by = 0
    /\ arcs' = [arcs EXCEPT ![Unwrap(hs[s].history)].locked_by = s]
    /\ hs' = [hs EXCEPT ![s].pc = "chat_clone"]
    /\ UNCHANGED <<dispatched, chat_histories, chat_histories_lock, next_arc, map_ops>>

\* .clone() of the locked String, the assembly of the prompt and the start of
\* the completion request (main.rs:129-142). A slice that does not start on
\* a character boundary panics: the task unwinds.
ChatCloneAndPost(s) ==
    /\ hs[s].pc = "chat_clone"
    /\ LET arc == Unwrap(hs[s].history)
           locked_history == arcs[arc].data
           relevant == RelevantHistoryWithPrompt(
                           locked_history, UserName(hs[s].ev.author), hs[s].prompt)
           allocs == [arcs EXCEPT ![arc].locked_by = HistoryGuardAfterClone(s)]
           tasks == [hs EXCEPT ![s] =
                IF relevant.ok
                THEN [@ EXCEPT !.pc = "await_post",
                               !.locked_history = locked_history,
                               !.relevant_history_with_prompt = Some(relevant.text),
                               !.posts = @ + 1]
                ELSE [LeaveChat(@) EXCEPT !.pc = "panicked",
                                          !.panic = "byte index is not a char boundary"]]
       IN  /\ hs' = tasks
           /\ arcs' = Reclaim(allocs, chat_histories, tasks)
    /\ UNCHANGED <<dispatched, chat_histories, chat_histories_lock, next_arc, map_ops>>

\* A handler that would go on with an empty text when send() or json() fails,
\* in place of the two `return Err(None)`.
Completion_ErrAsText(outcome) ==
    IF outcome.kind # "json"
    THEN [kind |-> "text", text |-> <<>>, panic |-> ""]
    ELSE LET choice == Choice0Text(outcome.value) IN
         IF choice.ok
         THEN [kind |-> "text", text |-> choice.text, panic |-> ""]
         ELSE [kind |-> "panic", text |-> <<>>, panic |-> choice.panic]

\* What main.rs:142-166 make of the end of the round trip: `return Err(None)`
\* when send() or json() fails, else the traversal of the decoded value.
Completion(outcome) ==
    IF outcome.kind # "json"
    THEN [kind |-> "err", text |-> <<>>, panic |-> ""]
    ELSE LET choice == Choice0Text(outcome.value) IN
         IF choice.ok
         THEN [kind |-> "text", text |-> choice.text, panic |-> ""]
         ELSE [kind |-> "panic", text |-> <<>>, panic |-> choice.panic]

\* The end of the round trip (main.rs:142-166).
ChatResponse(s, env) ==
    /\ hs[s].pc = "await_post"
    /\ \E i \in env.backend :
         LET completion == Completion(BackendOutcomes[i])
             tasks == [hs EXCEPT ![s] =
                CASE completion.kind = "err" ->
                       [LeaveChat(@) EXCEPT !.pc = "chat_returned", !.outcome = i,
                                            !.chat_ret = Some(Err(None))]
                  [] completion.kind = "panic" ->
                       [LeaveChat(@) EXCEPT !.pc = "panicked", !.outcome = i,
                                            !.panic = completion.panic]
                  [] OTHER ->
                       [@ EXCEPT !.pc = "chat_lock_push", !.outcome = i,
                                 !.choice_0_text = completion.text]]
         IN  /\ hs' = tasks
             /\ arcs' = Reclaim(arcs, chat_histories, tasks)
    /\ UNCHANGED <<dispatched, chat_histories, chat_histories_lock, next_arc, map_ops>>

\* history.lock() (main.rs:168)
ChatLockPush(s) ==
    /\ hs[s].pc = "chat_lock_push"
    /\ arcs[Unwrap(hs[s].history)].locked_by = 0
    /\ arcs' = [arcs EXCEPT ![Unwrap(hs[s].history)].locked_by = s]
    /\ hs' = [hs EXCEPT ![s].pc = "chat_push"]
    /\ UNCHANGED <<dispatched, chat_histories, chat_histories_lock, next_arc, map_ops>>

\* An append that writes back the copy taken before the request, with the
\* record after it.
ChatPush_WriteBack(s) ==
    /\ hs[s].pc = "chat_push"
    /\ LET arc == Unwrap(hs[s].history)
           record == ExchangeRecord(UserName(hs[s].ev.author), hs[s].prompt,
                                    hs[s].model, hs[s].choice_0_text)
           allocs == [arcs EXCEPT ![arc].data = hs[s].locked_history \o record,
                                  ![arc].locked_by = HistoryGuardAfterPush(s)]
           tasks == [hs EXCEPT ![s] =
                        [LeaveChat(@) EXCEPT !.pc = "chat_returned",
                                             !.chat_ret = Some(Ok(hs[s].choice_0_text))]]
       IN  /\ hs' = tasks
           /\ arcs' = Reclaim(allocs, chat_histories, tasks)
    /\ UNCHANGED <<dispatched, chat_histories, chat_histories_lock, next_arc, map_ops>>

\* .push_str(..) and Ok(choice_0_text.to_owned()) (main.rs:168-170)
ChatPush(s) ==
    /\ hs[s].pc = "chat_push"
    /\ LET arc == Unwrap(hs[s].history)
           record == ExchangeRecord(UserName(hs[s].ev.author), hs[s].prompt,
                                    hs[s].model, hs[s].choice_0_text)
           allocs == [arcs EXCEPT ![arc].data = @ \o record,
                                  ![arc].locked_by = HistoryGuardAfterPush(s)]
           tasks == [hs EXCEPT ![s] =
                        [LeaveChat(@) EXCEPT !.pc = "chat_returned",
                                             !.chat_ret = Some(Ok(hs[s].choice_0_text))]]
       IN  /\ hs' = tasks
           /\ arcs' = Reclaim(allocs, chat_histories, tasks)
    /\ UNCHANGED <<dispatched, chat_histories, chat_histories_lock, next_arc, map_ops>>

(***************************************************************************)
(* After Handler::chat.                                                    *)
(***************************************************************************)
\* format!("{prompt}{response}") (main.rs:247, 331)
ReplyContent(prompt, response) == prompt \o response

\* A handler that drops the user's session when its reply is not delivered.
MessageAfterChat_Rollback(s, env) ==
    /\ hs[s].pc = "chat_returned"
    /\ hs[s].ev.ui = "discord_classic"
    /\ LET ret == Unwrap(hs[s].chat_ret) IN
       \E deleted \in env.gateway, sent \in env.gateway :
         LET tasks == [hs EXCEPT ![s] =
                IF ~ret.ok
                THEN [@ EXCEPT !.pc = "error_reply", !.result = Some(Err(ret.e))]
                ELSE [@ EXCEPT
                        !.pc = IF sent THEN "done" ELSE "error_reply",
                        !.result = IF sent THEN Some(Ok(<<>>)) ELSE Some(Err(None)),
                        !.out = @ \o (IF IsSome(hs[s].in_progress_message)
                                      THEN <<GatewayCall("delete", Thinking, deleted)>>
                                      ELSE <<>>)
                                  \o <<GatewayCall("send_message",
                                                   ReplyContent(hs[s].prompt, ret.v), sent)>>]]
             map == IF ret.ok /\ ~sent
                    THEN [u \in DOMAIN chat_histories \ {hs[s].ev.author} |-> chat_histories[u]]
                    ELSE chat_histories
         IN  /\ hs' = tasks
             /\ chat_histories' = map
             /\ arcs' = Reclaim(arcs, map, tasks)
    /\ UNCHANGED <<dispatched, chat_histories_lock, next_arc, map_ops>>

\* handle_message, main.rs:321-336: `?` on the chat, the delete of the
\* placeholder, the reply.
MessageAfterChat(s, env) ==
    /\ hs[s].pc = "chat_returned"
    /\ hs[s].ev.ui = "discord_classic"
    /\ LET ret == Unwrap(hs[s].chat_ret) IN
       \E deleted \in env.gateway, sent \in env.gateway :
         hs' = [hs EXCEPT ![s] =
            IF ~ret.ok
            THEN [@ EXCEPT !.pc = "error_reply", !.result = Some(Err(ret.e))]
            ELSE [@ EXCEPT
                    !.pc = IF sent THEN "done" ELSE "error_reply",
                    !.result = IF sent THEN Some(Ok(<<>>)) ELSE Some(Err(None)),
                    !.out = @ \o (IF IsSome(hs[s].in_progress_message)
                                  THEN <<GatewayCall("delete", Thinking, deleted)>>
                                  ELSE <<>>)
                              \o <<GatewayCall("send_message",
                                               ReplyContent(hs[s].prompt, ret.v), sent)>>]]
    /\ UNCHANGED <<dispatched, chat_histories, chat_histories_lock, arcs, next_arc, map_ops>>

\* handle_appcomm, main.rs:243-259.
AppcommAfterChat(s, env) ==
    /\ hs[s].pc = "chat_returned"
    /\ hs[s].ev.ui = "discord_appcomm"
    /\ LET ret == Unwrap(hs[s].chat_ret) IN
       \E sent \in env.gateway :
         hs' = [hs EXCEPT ![s] =
            IF ~ret.ok
            THEN [@ EXCEPT !.pc = "error_reply", !.result = Some(Err(ret.e))]
            ELSE [@ EXCEPT
                    !.pc = IF sent THEN "done" ELSE "error_reply",
                    !.result = IF sent THEN Some(Ok(<<>>)) ELSE Some(Err(None)),
                    !.out = Append(@, GatewayCall("followup",
                                          ReplyContent(hs[s].prompt, ret.v), sent))]]
    /\ UNCHANGED <<dispatched, chat_histories, chat_histories_lock, arcs, next_arc, map_ops>>

(***************************************************************************)
(* Handler::clear (main.rs:173-177) and its confirmation.                  *)
(***************************************************************************)
\* self.chat_histories.lock()
ClearLock(s) ==
    /\ hs[s].pc = "clear_lock"
    /\ chat_histories_lock = 0
    /\ chat_histories_lock' = s
    /\ hs' = [hs EXCEPT ![s].pc = "clear_remove"]
    /\ UNCHANGED <<dispatched, chat_histories, arcs, next_arc, map_ops>>

\* A removal that empties the map.
Remove_All(map, user_id) == <<>>

\* A removal that leaves the entry in the map.
Remove_Keep(map, user_id) == map

\* HashMap::remove(&user_id): the map without the entry.
Remove(map, user_id) == [u \in DOMAIN map \ {user_id} |-> map[u]]

\* .remove(&user_id); the guard and the removed Arc are dropped.
ClearRemove(s) ==
    /\ hs[s].pc = "clear_remove"
    /\ chat_histories_lock = s
    /\ LET user_id == hs[s].ev.author
           map == Remove(chat_histories, user_id)
       IN  /\ chat_histories' = map
           /\ arcs' = Reclaim(arcs, map, hs)
           /\ map_ops' = Append(map_ops,
                            [id |-> hs[s].id, op |-> "remove", user |-> user_id,
                             arc |-> IF user_id \in DOMAIN chat_histories
                                     THEN chat_histories[user_id] ELSE 0,
                             len |-> IF user_id \in DOMAIN chat_histories
                                     THEN Len(arcs[chat_histories[user_id]].data)
                                     ELSE 0])
    /\ chat_histories_lock' = 0
    /\ hs' = [hs EXCEPT ![s].pc = "clear_confirm"]
    /\ UNCHANGED <<dispatched, next_arc>>

\* A confirmation whose failure is logged and ignored.
ClearConfirm_Swallow(s, env) ==
    /\ hs[s].pc = "clear_confirm"
    /\ \E sent \in env.gateway :
         hs' = [hs EXCEPT ![s] =
            [@ EXCEPT
                !.pc = "done",
                !.result = Some(Ok(<<>>)),
                !.out = Append(@, GatewayCall(
                            IF hs[s].ev.ui = "discord_classic" THEN "reply" ELSE "followup",
                            ChatHistoryCleared, sent))]]
    /\ UNCHANGED <<dispatched, chat_histories, chat_histories_lock, arcs, next_arc, map_ops>>

\* "Chat history cleared." (main.rs:228, 286): a reply to the message, or a
\* followup to the interaction; when it fails the handler returns Err(None).
ClearConfirm(s, env) ==
    /\ hs[s].pc = "clear_confirm"
    /\ \E sent \in env.gateway :
         hs' = [hs EXCEPT ![s] =
            [@ EXCEPT
                !.pc = IF sent THEN "done" ELSE "error_reply",
                !.result = IF sent THEN Some(Ok(<<>>)) ELSE Some(Err(None)),
                !.out = Append(@, GatewayCall(
                            IF hs[s].ev.ui = "discord_classic" THEN "reply" ELSE "followup",
                            ChatHistoryCleared, sent))]]
    /\ UNCHANGED <<dispatched, chat_histories, chat_histories_lock, arcs, next_arc, map_ops>>

(***************************************************************************)
(* handle_message_and_errors / handle_appcomm_and_errors, the Err arm      *)
(* (main.rs:206-216, 269-279).                                             *)
(***************************************************************************)
\* A wrapper that tries again when the failure reply is not delivered.
ErrorReply_Retry(s, env) ==
    /\ hs[s].pc = "error_reply"
    /\ \E sent \in env.gateway :
         hs' = [hs EXCEPT ![s] =
            [@ EXCEPT
                !.pc = IF sent \/ Len(hs[s].out) > 3 THEN "done" ELSE "error_reply",
                !.out = Append(@, GatewayCall(
                            IF hs[s].ev.ui = "discord_classic" THEN "reply" ELSE "followup",
                            FailureMessage(Unwrap(hs[s].result).e), sent))]]
    /\ UNCHANGED <<dispatched, chat_histories, chat_histories_lock, arcs, next_arc, map_ops>>

ErrorReply(s, env) ==
    /\ hs[s].pc = "error_reply"
    /\ \E sent \in env.gateway :
         hs' = [hs EXCEPT ![s] =
            [@ EXCEPT
                !.pc = "done",
                !.out = Append(@, GatewayCall(
                            IF hs[s].ev.ui = "discord_classic" THEN "reply" ELSE "followup",
                            FailureMessage(Unwrap(hs[s].result).e), sent))]]
    /\ UNCHANGED <<dispatched, chat_histories, chat_histories_lock, arcs, next_arc, map_ops>>

(***************************************************************************)
(* The specifications.                                                     *)
(***************************************************************************)
Step(env) ==
    \E s \in Slots :
        \/ Dispatch(s, env)
        \/ HandleMessage(s)
        \/ SendThinking(s, env)
        \/ HandleAppcomm(s, env)
        \/ ChatLockHistories(s)
        \/ ChatEntry(s, env)
        \/ ChatLockHistory(s)
        \/ ChatCloneAndPost(s)
        \/ ChatResponse(s, env)
        \/ ChatLockPush(s)
        \/ ChatPush(s)
        \/ MessageAfterChat(s, env)
        \/ AppcommAfterChat(s, env)
        \/ ClearLock(s)
        \/ ClearRemove(s)
        \/ ClearConfirm(s, env)
        \/ ErrorReply(s, env)

Next == Step(SessionEnv)

Spec == Init /\ [][Next]_vars

NextRouter == Step(RouterEnv)

SpecRouter == Init /\ [][NextRouter]_vars

\* The steps a task takes on its own: every step but the delivery of the
\* event and the end of the round trip, which are up to the gateway and to
\* the backend.
Proceed(s, env) ==
    \/ HandleMessage(s)
    \/ SendThinking(s, env)
    \/ HandleAppcomm(s, env)
    \/ ChatLockHistories(s)
    \/ ChatEntry(s, env)
    \/ ChatLockHistory(s)
    \/ ChatCloneAndPost(s)
    \/ ChatLockPush(s)
    \/ ChatPush(s)
    \/ MessageAfterChat(s, env)
    \/ AppcommAfterChat(s, env)
    \/ ClearLock(s)
    \/ ClearRemove(s)
    \/ ClearConfirm(s, env)
    \/ ErrorReply(s, env)

NextFair == Step(FairEnv)

\* The executor runs every task that can take a step (tokio, main.rs:427);
\* nothing makes the backend answer (no timeout, main.rs:142-148).
SpecFair ==
    Init /\ [][NextFair]_vars /\ \A s \in Slots : WF_vars(Proceed(s, FairEnv))

NextDelivery == Step(DeliveryEnv)

SpecDelivery == Init /\ [][NextDelivery]_vars

NextMixed == Step(MixedEnv)

SpecMixed == Init /\ [][NextMixed]_vars

(***************************************************************************)
(* Properties.                                                             *)
(***************************************************************************)
\* The transcript of a user's session in the store; empty when the store
\* holds no session for the user.
Transcript(map, allocs, user_id) ==
    IF user_id \in DOMAIN map THEN allocs[map[user_id]].data ELSE <<>>

\* A chat invocation, on either interface.
IsChat(ev) ==
    \/ ev.ui = "discord_classic" /\ StartsWith(ev.content, DashChatSp)
    \/ ev.ui = "discord_appcomm" /\ ev.name = "chat"

\* The call that carries a failure to the user on the event's interface.
FailureCall(ev) == IF ev.ui = "discord_classic" THEN "reply" ELSE "followup"

\* The round trips that fail: no response, or a body that is not JSON.
BackendFailures ==
    {i \in 1..Len(BackendOutcomes) : BackendOutcomes[i].kind \in {"send_err", "body_err"}}

\* The round trips that end in a decoded value without the text of a first
\* choice.
MalformedResponses ==
    {i \in 1..Len(BackendOutcomes) :
        /\ BackendOutcomes[i].kind = "json"
        /\ ~Choice0Text(BackendOutcomes[i].value).ok}

\* A task whose backend call failed returns Err(None) from Handler::chat and
\* from its handler, and what it delivers is the generic fallback: no reply
\* text reaches the user as a success.
C1_FallbackDelivered ==
    \A s \in Slots :
        (IsChat(hs[s].ev) /\ hs[s].outcome \in BackendFailures) =>
            /\ hs[s].pc \in {"chat_returned", "error_reply", "done"}
            /\ hs[s].chat_ret = Some(Err(None))
            /\ hs[s].pc \in {"error_reply", "done"} => hs[s].result = Some(Err(None))
            /\ hs[s].pc = "done" =>
                 /\ hs[s].out # <<>>
                 /\ hs[s].out[Len(hs[s].out)].call = FailureCall(hs[s].ev)
                 /\ hs[s].out[Len(hs[s].out)].content = AnErrorOccurred
                 /\ \A i \in 1..Len(hs[s].out) :
                      /\ hs[s].out[i].call # "send_message"
                      /\ hs[s].out[i].call = "followup"
                           => hs[s].out[i].content = AnErrorOccurred

\* C1: a chat invocation whose backend call fails (no response, or a body
\* that does not decode) leaves every transcript as it found it: no step of
\* a chat invocation changes a transcript except the append that follows a
\* completion, and an invocation whose call failed makes no append; it
\* returns the generic failure, and the user gets the generic fallback.
C1_BackendFailureKeepsTranscript ==
    [][ /\ \A s \in Slots :
             ( /\ hs'[s] # hs[s]
               /\ hs'[s].id = hs[s].id
               /\ IsChat(hs[s].ev)
               /\ (hs[s].pc # "chat_push" \/ hs[s].outcome \in BackendFailures) )
             => /\ \A u \in UserIds :
                     Transcript(chat_histories', arcs', u)
                         = Transcript(chat_histories, arcs, u)
                /\ \A a \in DOMAIN arcs \cap DOMAIN arcs' : arcs'[a].data = arcs[a].data
        /\ C1_FallbackDelivered' ]_vars

\* A chat whose backend call failed has ended with the fallback delivered
\* while the user's session holds an earlier exchange.
C1_Witness ==
    \E s \in Slots :
        /\ IsChat(hs[s].ev) /\ hs[s].outcome \in BackendFailures /\ hs[s].pc = "done"
        /\ hs[s].out[Len(hs[s].out)].content = AnErrorOccurred
        /\ Transcript(chat_histories, arcs, hs[s].ev.author) # <<>>

\* C2: a response that decodes as JSON but lacks the reply text at
\* choices[0].text is handled like any failed invocation: the task does not
\* crash, and Handler::chat returns the generic failure.
C2_MalformedResponseHandled ==
    \A s \in Slots :
        hs[s].outcome \in MalformedResponses =>
            /\ hs[s].pc # "panicked"
            /\ hs[s].chat_ret = Some(Err(None))

\* C3: the text sent to the backend is the concatenation transcript +
\* "\n\nPrompt from N: " + prompt when that is at most MAX_PROMPT_LEN bytes
\* long, its trailing MAX_PROMPT_LEN bytes otherwise; the assembly leaves
\* the transcripts alone.
C3_WindowSent ==
    [][ \A s \in Slots :
            (hs[s].pc = "chat_clone" /\ hs'[s].pc # "chat_clone") =>
                LET T == arcs[Unwrap(hs[s].history)].data
                    C == T \o PromptFromSep \o UserName(hs[s].ev.author)
                           \o ColonSpace \o hs[s].prompt
                IN  /\ hs'[s].relevant_history_with_prompt =
                         Some(IF Len(C) <= MAX_PROMPT_LEN
                              THEN C
                              ELSE SubSeq(C, Len(C) - MAX_PROMPT_LEN + 1, Len(C)))
                    /\ \A a \in DOMAIN arcs \cap DOMAIN arcs' :
                         arcs'[a].data = arcs[a].data ]_vars

\* C4: the cut of the window never splits a character and never aborts the
\* handler: no task panics in the slice, and a text that was cut starts on
\* a character boundary.
C4_CutOnCharBoundary ==
    \A s \in Slots :
        /\ hs[s].panic # "byte index is not a char boundary"
        /\ IsSome(hs[s].relevant_history_with_prompt) =>
             LET text == Unwrap(hs[s].relevant_history_with_prompt)
             IN  text = <<>> \/ text[1] < 128 \/ text[1] >= 192

\* A legacy chat message with the model token and the prompt.
LegacyChat(model, prompt) == DashChatSp \o model \o <<32>> \o prompt

\* The model tokens and the prompts of the legacy chat messages looked at.
ModelTokens == {davinci, curie, babbage, ada, gpt4}
Prompts == {PromptHi, PromptLong}

\* The rejections of the gate, in every state: a token off the allow-list
\* and an allowed but disabled token are rejected with the message that
\* names the token, and no backend call is made.
GateRejects(task, model) ==
    LET message == IF model \in {curie, babbage, ada}
                   THEN OnlyDavinciPrefix \o model \o BacktickDot
                   ELSE ModelShouldBeOnePrefix \o model \o BacktickDot
    IN  /\ task.posts = 0
        /\ task.pc \in {"begin", "error_reply", "done"}
        /\ task.pc # "begin" => task.result = Some(Err(Some(message)))
        /\ task.pc = "done" => /\ Len(task.out) = 1
                               /\ task.out[1].call = "reply"
                               /\ task.out[1].content = message

InvalidBodies == {BodyNoModel, BodyNoPrompt, BodyCurie, BodyGpt4}
Explanation(content) ==
    CASE content = BodyNoModel -> ModelShouldBeOnePrefix \o BacktickDot
      [] content = BodyNoPrompt -> PromptNeeded
      [] content = BodyCurie -> OnlyDavinciPrefix \o curie \o BacktickDot
      [] content = BodyGpt4 -> ModelShouldBeOnePrefix \o gpt4 \o BacktickDot

\* A structured chat command without the model or without the prompt.
LacksOption(ev) ==
    /\ ev.ui = "discord_appcomm" /\ ev.name = "chat"
    /\ \/ \A i \in 1..Len(ev.options) : ev.options[i].name # "model"
       \/ \A i \in 1..Len(ev.options) : ev.options[i].name # "prompt"

\* The last call a task made to the gateway has the content.
LastCallIs(task, call, content) ==
    /\ task.out # <<>>
    /\ task.out[Len(task.out)].call = call
    /\ task.out[Len(task.out)].content = content

UserOps(user_id) ==
    LET OfUser(o) == o.user = user_id IN SelectSeq(map_ops, OfUser)

\* A chat invocation that succeeded.
Succeeded(task) ==
    IsChat(task.ev) /\ IsSome(task.chat_ret) /\ Unwrap(task.chat_ret).ok

\* The exchange record of a chat invocation that succeeded:
\* "\n\n{N}: {P}\n{model}: {R}".
RecordOf(task) ==
    <<10, 10>> \o UserName(task.ev.author) \o <<58, 32>> \o task.prompt
        \o <<10>> \o davinci \o <<58, 32>> \o Unwrap(task.chat_ret).v

\* C7: when a clear of user U has removed the entry and a chat of U that
\* comes next succeeds, the store holds for U a fresh session whose
\* transcript is exactly the record of that one exchange, as long as no
\* further operation of U reaches the store.
C7_FreshSessionAfterClear ==
    \A h \in Slots :
        LET U == hs[h].ev.author
            ops == UserOps(U)
            n == Len(ops)
        IN  ( /\ Succeeded(hs[h])
              /\ n >= 2
              /\ ops[n].op = "entry" /\ ops[n].id = hs[h].id
              /\ ops[n - 1].op = "remove"
              /\ hs[h].id > ops[n - 1].id ) =>
                /\ U \in DOMAIN chat_histories
                /\ chat_histories[U] # ops[n - 1].arc
                /\ ops[n].len = 0
                /\ Transcript(chat_histories, arcs, U) = RecordOf(hs[h])

\* A chat has succeeded after a clear that removed a session with a
\* transcript in it, and its handler has returned.
C7_Witness ==
    \E h \in Slots :
        LET ops == UserOps(hs[h].ev.author)
            n == Len(ops)
        IN  /\ Succeeded(hs[h]) /\ hs[h].pc = "done"
            /\ n >= 2
            /\ ops[n].op = "entry" /\ ops[n].id = hs[h].id
            /\ ops[n - 1].op = "remove" /\ ops[n - 1].len > 0
            /\ hs[h].id > ops[n - 1].id

\* Whether `part` occurs in s (the first byte is compared first).
Occurs(part, s) ==
    \E i \in 0..(Len(s) - Len(part)) :
        /\ s[i + 1] = part[1]
        /\ SubSeq(s, i + 1, i + Len(part)) = part

\* Task b is a chat of the user of chat a, delivered after a succeeded and
\* its handler ended, with no clear of that user between their accesses to
\* the store, and b has assembled its prompt text.
FollowsWithoutClear(a, b) ==
    /\ a # b
    /\ Succeeded(hs[a]) /\ IsChat(hs[b].ev)
    /\ hs[a].ev.author = hs[b].ev.author
    /\ hs[a].id \in hs[b].after
    /\ hs[b].pc = "await_post"
    /\ \E i, j \in 1..Len(map_ops) :
         /\ i < j
         /\ map_ops[i].op = "entry" /\ map_ops[i].id = hs[a].id
         /\ map_ops[j].op = "entry" /\ map_ops[j].id = hs[b].id
         /\ \A k \in i..j : ~(map_ops[k].op = "remove"
                               /\ map_ops[k].user = hs[a].ev.author)

\* The concatenation task b cut its prompt text from.
Concatenation(b) ==
    hs[b].locked_history \o PromptFromSep \o UserName(hs[b].ev.author)
        \o ColonSpace \o hs[b].prompt

\* C8 as the specification states it: when a chat of a user succeeds and a
\* second chat of the same user is issued after the first has ended, with
\* no clear between them, the prompt text the second one assembles contains
\* the exchange record the first one appended.
C8_SecondPromptHasRecord ==
    \A a, b \in Slots :
        FollowsWithoutClear(a, b) =>
            Occurs(RecordOf(hs[a]), Unwrap(hs[b].relevant_history_with_prompt))

\* C8, amended: the concatenation the second chat assembles from contains
\* the record of the first, and the prompt text is a suffix of it: the
\* whole of it, the record included, when the concatenation is at most
\* MAX_PROMPT_LEN bytes long.
C8_RecordWithinWindow ==
    \A a, b \in Slots :
        FollowsWithoutClear(a, b) =>
            LET C == Concatenation(b)
                sent == Unwrap(hs[b].relevant_history_with_prompt)
            IN  /\ Occurs(RecordOf(hs[a]), C)
                /\ Len(sent) <= Len(C)
                /\ sent = SubSeq(C, Len(C) - Len(sent) + 1, Len(C))
                /\ Len(C) <= MAX_PROMPT_LEN =>
                     sent = C /\ Occurs(RecordOf(hs[a]), sent)

\* A second chat has assembled, within the window, a prompt text that
\* holds the record of the first.
C8_Witness ==
    \E a, b \in Slots :
        /\ FollowsWithoutClear(a, b)
        /\ Len(Concatenation(b)) <= MAX_PROMPT_LEN
        /\ Occurs(RecordOf(hs[a]), Unwrap(hs[b].relevant_history_with_prompt))

\* A clear invocation, on either interface.
IsClear(ev) ==
    \/ ev.ui = "discord_classic" /\ ev.content = DashClear
    \/ ev.ui = "discord_appcomm" /\ ev.name = "clear"

\* C9: a clear and a chat of the same user that run concurrently both run to
\* their end without a crash, whatever the interleaving, and once both have
\* ended the store holds for the user no session, or one session that does
\* not carry the transcript the clear removed.
C9_ConcurrentClearAndChat ==
    \A c, h \in Slots :
        ( /\ IsClear(hs[c].ev) /\ IsChat(hs[h].ev)
          /\ hs[c].ev.author = hs[h].ev.author
          /\ hs[c].id \notin hs[h].after
          /\ hs[h].id \notin hs[c].after ) =>
            /\ hs[c].pc # "panicked"
            /\ hs[h].pc # "panicked"
            /\ \A k \in 1..Len(map_ops) :
                 ( /\ map_ops[k].op = "remove" /\ map_ops[k].id = hs[c].id
                   /\ map_ops[k].arc # 0
                   /\ hs[c].ev.author \in DOMAIN chat_histories ) =>
                     \/ chat_histories[hs[c].ev.author] # map_ops[k].arc
                     \/ \E j \in (k + 1)..Len(map_ops) :
                          map_ops[j].user = hs[c].ev.author
                              /\ map_ops[j].op = "remove"

\* C10: a task that waits for the backend holds neither the lock of the
\* store nor the lock of any session; the lock of the store is held only
\* for the lookup or the removal, never together with a session lock; a
\* session lock is held only for the copy or the append.
C10_NoLockAcrossAwait ==
    \A s \in Slots :
        LET held == {a \in DOMAIN arcs : arcs[a].locked_by = s} IN
        /\ hs[s].pc = "await_post" => chat_histories_lock # s /\ held = {}
        /\ chat_histories_lock = s =>
             hs[s].pc \in {"chat_entry", "clear_remove"} /\ held = {}
        /\ held # {} =>
             /\ hs[s].pc \in {"chat_clone", "chat_push"}
             /\ held = {Unwrap(hs[s].history)}
        /\ hs[s].pc \in {"idle", "done", "panicked"} =>
             chat_histories_lock # s /\ held = {}

\* A task waits for the backend while another task holds the lock of the
\* store or the lock of the session the first one works on.
C10_Witness ==
    \E s, t \in Slots :
        /\ s # t
        /\ hs[s].pc = "await_post"
        /\ \/ chat_histories_lock = t
           \/ arcs[Unwrap(hs[s].history)].locked_by = t

\* C11: whatever the backend leaves unanswered, every task that is not
\* itself waiting for the backend goes on until it has ended or waits for
\* the backend in its turn: no task is held up by the store lock or by a
\* session lock for ever.
C11_OnlyTheWaitingTaskStalls ==
    \A s \in Slots :
        (Running(hs[s]) /\ hs[s].pc # "await_post")
            ~> (Ended(hs[s]) \/ hs[s].pc = "await_post")

\* A chat waits for the backend while a handler of the same user that was
\* delivered later has run to its end.
C11_Witness ==
    \E s, t \in Slots :
        /\ hs[s].pc = "await_post"
        /\ hs[t].pc = "done"
        /\ hs[t].id > hs[s].id
        /\ hs[t].ev.author = hs[s].ev.author
        /\ IsSome(hs[t].result) /\ Unwrap(hs[t].result).ok

\* A task whose handler returned a failure.
Failed(task) == IsSome(task.result) /\ ~Unwrap(task.result).ok

\* C12: a handler that returns a failure, on either interface, is followed
\* by exactly one step of its task: one attempt to deliver, on the channel
\* of the event, the message of the failure or "An error occurred" when it
\* has none; whether the attempt succeeds or not, the task has then ended
\* normally and nothing further is sent.
C12_OneFailureReply ==
    [][ \A s \in Slots :
          /\ (~Failed(hs[s]) /\ Failed(hs'[s])) => hs'[s].pc = "error_reply"
          /\ (Failed(hs[s]) /\ hs'[s].id = hs[s].id /\ hs'[s] # hs[s]) =>
               /\ hs[s].pc = "error_reply"
               /\ hs'[s].pc = "done"
               /\ hs'[s].result = hs[s].result
               /\ hs'[s].posts = hs[s].posts
               /\ \E ok \in BOOLEAN :
                    hs'[s].out = Append(hs[s].out,
                        [call |-> FailureCall(hs[s].ev),
                         content |-> IF Unwrap(hs[s].result).e = <<>>
                                     THEN AnErrorOccurred
                                     ELSE Unwrap(hs[s].result).e[1],
                         ok |-> ok]) ]_vars

\* A handler failed with a message of its own, the delivery of the failure
\* reply failed too, and the task has ended.
C12_Witness ==
    \E s \in Slots :
        /\ Failed(hs[s]) /\ hs[s].pc = "done"
        /\ Unwrap(hs[s].result).e # <<>>
        /\ ~hs[s].out[Len(hs[s].out)].ok

\* The delivery of a reply to the user: the success reply of a chat, the
\* confirmation of a clear or a failure reply (not the placeholder).
IsDelivery(c) ==
    c.call \in {"reply", "followup", "send_message"} /\ c.content # Thinking

\* C13 as the specification states it: when the delivery of a reply fails
\* the task makes no further call to deliver anything.
C13_NothingAfterFailedDelivery ==
    \A s \in Slots : \A i \in 1..Len(hs[s].out) :
        (IsDelivery(hs[s].out[i]) /\ ~hs[s].out[i].ok) => i = Len(hs[s].out)

\* C13, amended: a failed delivery is never tried again. When the failure
\* reply is not delivered the task ends there. When the success reply of a
\* chat or the confirmation of a clear is not delivered the handler returns
\* the generic failure, and one further reply is attempted: the fallback
\* "An error occurred".
C13_FallbackAfterFailedDelivery ==
    \A s \in Slots : \A i \in 1..Len(hs[s].out) :
        (IsDelivery(hs[s].out[i]) /\ ~hs[s].out[i].ok) =>
            LET n == Len(hs[s].out) IN
            /\ Failed(hs[s])
            /\ hs[s].pc \in {"error_reply", "done"}
            /\ i >= n - 1
            /\ i = n => \/ hs[s].pc = "done"
                        \/ /\ hs[s].result = Some(Err(None))
                           /\ \/ hs[s].out[i].content = ChatHistoryCleared
                              \/ Succeeded(hs[s])
            /\ i = n - 1 =>
                 /\ hs[s].pc = "done"
                 /\ hs[s].result = Some(Err(None))
                 /\ hs[s].out[n].call = FailureCall(hs[s].ev)
                 /\ hs[s].out[n].content = AnErrorOccurred
                 /\ \/ hs[s].out[i].content = ChatHistoryCleared
                    \/ Succeeded(hs[s])

\* The confirmation of a clear was not delivered, the fallback was
\* attempted after it, and the task has ended.
C13_Witness ==
    \E s \in Slots :
        LET n == Len(hs[s].out) IN
        /\ hs[s].pc = "done" /\ n >= 2
        /\ hs[s].out[n - 1].content = ChatHistoryCleared
        /\ ~hs[s].out[n - 1].ok
        /\ hs[s].out[n].content = AnErrorOccurred

\* Chats a and b of one user succeeded, ran concurrently and saw no clear:
\* their lookups are the last two operations on the user's entry, and every
\* earlier handler of that user had ended when they were delivered.
ConcurrentChats(a, b) ==
    LET ops == UserOps(hs[a].ev.author)
        n == Len(ops)
    IN  /\ a # b
        /\ Succeeded(hs[a]) /\ Succeeded(hs[b])
        /\ hs[a].ev.author = hs[b].ev.author
        /\ hs[a].id \notin hs[b].after
        /\ hs[b].id \notin hs[a].after
        /\ n >= 2
        /\ ops[n - 1].op = "entry" /\ ops[n].op = "entry"
        /\ {ops[n - 1].id, ops[n].id} = {hs[a].id, hs[b].id}
        /\ \A k \in 1..(n - 2) : ops[k].id \in hs[a].after \cap hs[b].after

\* The transcript of the user of a and b is what it was at the first of
\* their lookups, then the record of a, then the record of b.
RecordsInOrder(a, b) ==
    LET ops == UserOps(hs[a].ev.author)
        prior == ops[Len(ops) - 1].len
        T == Transcript(chat_histories, arcs, hs[a].ev.author)
    IN  /\ Len(T) = prior + Len(RecordOf(hs[a])) + Len(RecordOf(hs[b]))
        /\ SubSeq(T, prior + 1, Len(T)) = RecordOf(hs[a]) \o RecordOf(hs[b])

\* Two concurrent chats of a user got the same session, and its transcript
\* ends with their two records, whole, in one order or the other.
BothRecordsKept ==
    \A a, b \in Slots :
        ConcurrentChats(a, b) =>
            LET ops == UserOps(hs[a].ev.author)
                n == Len(ops)
            IN  /\ ops[n - 1].arc = ops[n].arc
                /\ hs[a].ev.author \in DOMAIN chat_histories
                /\ chat_histories[hs[a].ev.author] = ops[n].arc
                /\ RecordsInOrder(a, b) \/ RecordsInOrder(b, a)

\* C14: two chats of one user that run concurrently, both succeed and see
\* no clear work on the same session; every append puts one whole record at
\* the end of the transcript and changes nothing before it, so the final
\* transcript is the prior one followed by the two records, in one order
\* or the other.
C14_ConcurrentAppends ==
    [][ /\ \A s \in Slots :
             (hs[s].pc = "chat_push" /\ hs'[s].pc # "chat_push") =>
                 LET arc == Unwrap(hs[s].history) IN
                 /\ Succeeded(hs'[s])
                 /\ arc \in DOMAIN arcs' =>
                      arcs'[arc].data = arcs[arc].data \o RecordOf(hs'[s])
                 /\ \A o \in (DOMAIN arcs \cap DOMAIN arcs') \ {arc} :
                      arcs'[o].data = arcs[o].data
        /\ BothRecordsKept' ]_vars

\* Two concurrent chats with different prompts have both ended, and the
\* record of the one delivered later stands before the record of the
\* other, after a transcript that was not empty.
C14_Witness ==
    \E a, b \in Slots :
        /\ ConcurrentChats(a, b)
        /\ hs[a].pc = "done" /\ hs[b].pc = "done"
        /\ hs[a].id < hs[b].id
        /\ hs[a].prompt # hs[b].prompt
        /\ RecordsInOrder(b, a)
        /\ UserOps(hs[a].ev.author)[Len(UserOps(hs[a].ev.author)) - 1].len > 0

\* C15: on the legacy path a task that has sent the placeholder and whose
\* handler has returned has attempted to delete it, whether the completion
\* call succeeded or failed.
C15_PlaceholderDeleted ==
    \A s \in Slots :
        (hs[s].pc = "done" /\ hs[s].ev.ui = "discord_classic") =>
            \A i \in 1..Len(hs[s].out) :
                (hs[s].out[i].content = Thinking /\ hs[s].out[i].ok) =>
                    \E j \in (i + 1)..Len(hs[s].out) : hs[s].out[j].call = "delete"

\* The message bodies that are no commands: "-clear now", "-chat", "hello".
NotCommands == {BodyClearNow, BodyChatAlone, BodyHello}

\* C16: a legacy message whose body is neither "-clear" nor begins with
\* "-chat " is ignored: the one step of its task returns success, calls
\* neither the gateway nor the backend, and leaves the store, its lock and
\* every transcript as they are.
C16_NotACommandIgnored ==
    [][ \A s \in Slots :
          ( /\ hs[s].ev.ui = "discord_classic"
            /\ hs[s].ev.content \in NotCommands
            /\ hs'[s].id = hs[s].id ) =>
              /\ hs[s].pc \in {"begin", "done"}
              /\ hs[s].out = <<>> /\ hs[s].posts = 0
              /\ hs[s].pc = "done" => hs'[s] = hs[s] /\ hs[s].result = Some(Ok(<<>>))
              /\ hs'[s] # hs[s] =>
                   /\ hs'[s].pc = "done"
                   /\ hs'[s].out = <<>> /\ hs'[s].posts = 0
                   /\ hs'[s].result = Some(Ok(<<>>))
                   /\ UNCHANGED <<chat_histories, chat_histories_lock, arcs, map_ops>> ]_vars

\* A message that is no command but begins with "-clear" was ignored while
\* the store holds a transcript of its author.
C16_Witness ==
    \E s \in Slots :
        /\ hs[s].ev.ui = "discord_classic"
        /\ hs[s].ev.content = BodyClearNow
        /\ hs[s].pc = "done"
        /\ Transcript(chat_histories, arcs, hs[s].ev.author) # <<>>

\* C17: a "-chat" body with the enabled model and no prompt text, ending at
\* the model token or with one white space after it, is rejected with "A
\* prompt is needed to give to the AI." before any placeholder is sent, any
\* session is looked up or created, and any backend call is made.
C17_PromptNeeded ==
    \A s \in Slots :
        ( /\ hs[s].ev.ui = "discord_classic"
          /\ hs[s].ev.content \in {BodyNoPrompt, BodyTrailingSpace} ) =>
            /\ hs[s].pc \in {"begin", "error_reply", "done"}
            /\ hs[s].pc # "begin" => hs[s].result = Some(Err(Some(PromptNeeded)))
            /\ hs[s].posts = 0
            /\ \A i \in 1..Len(hs[s].out) : hs[s].out[i].content # Thinking
            /\ \A k \in 1..Len(map_ops) : map_ops[k].id # hs[s].id

\* C18: a step of a handler that runs for user U leaves the entry of every
\* other user in the store as it is, and the transcript behind it; the
\* delivery of an event changes nothing in the store.
C18_UserIsolation ==
    [][ \A s \in Slots :
          hs'[s] # hs[s] =>
              \A v \in UserIds :
                  (hs'[s].id # hs[s].id \/ v # hs[s].ev.author) =>
                      /\ (v \in DOMAIN chat_histories') = (v \in DOMAIN chat_histories)
                      /\ v \in DOMAIN chat_histories =>
                           /\ chat_histories'[v] = chat_histories[v]
                           /\ arcs'[chat_histories'[v]].data
                                  = arcs[chat_histories[v]].data ]_vars

\* The session of a user was removed by a clear of that user while the
\* store holds a transcript of another user, which is still there.
C18_Witness ==
    \E k \in 1..Len(map_ops) : \E v \in UserIds :
        /\ map_ops[k].op = "remove" /\ map_ops[k].arc # 0
        /\ v # map_ops[k].user
        /\ \E j \in 1..(k - 1) : map_ops[j].user = v
        /\ Transcript(chat_histories, arcs, v) # <<>>
        /\ map_ops[k].user \notin DOMAIN chat_histories

\* The success reply of a chat that succeeded was not delivered.
ReplyUndelivered(task) ==
    /\ Succeeded(task)
    /\ \E i \in 1..Len(task.out) :
         /\ task.out[i].call \in {"send_message", "followup"}
         /\ task.out[i].content = task.prompt \o Unwrap(task.chat_ret).v
         /\ ~task.out[i].ok

\* C19 as the specification states it: when the success reply of a chat
\* is not delivered, the next chat of the same user, with no clear between
\* them, has the exchange of the first in its prompt text.
C19_NextPromptHasExchange ==
    \A a, b \in Slots :
        (FollowsWithoutClear(a, b) /\ ReplyUndelivered(hs[a])) =>
            Occurs(RecordOf(hs[a]), Unwrap(hs[b].relevant_history_with_prompt))

\* C19, amended: a chat that succeeded has its record in the String it
\* appended to from the moment Handler::chat returns, before any reply, and
\* nothing takes it out again: when the success reply is not delivered the
\* handler returns the generic failure, the fallback "An error occurred" is
\* what is sent next, and the next chat of the same user, with no clear
\* between them, assembles its prompt text from a concatenation that holds
\* the record: the whole of it is the prompt text when it is at most
\* MAX_PROMPT_LEN bytes long.
C19_NoRollback ==
    \A a \in Slots :
        Succeeded(hs[a]) =>
            /\ \A k \in 1..Len(map_ops) :
                 ( /\ map_ops[k].op = "entry" /\ map_ops[k].id = hs[a].id
                   /\ map_ops[k].arc \in DOMAIN arcs ) =>
                     Occurs(RecordOf(hs[a]), arcs[map_ops[k].arc].data)
            /\ ReplyUndelivered(hs[a]) =>
                 /\ hs[a].result = Some(Err(None))
                 /\ hs[a].pc \in {"error_reply", "done"}
                 /\ hs[a].pc = "done" =>
                      LastCallIs(hs[a], FailureCall(hs[a].ev), AnErrorOccurred)
                 /\ \A b \in Slots :
                      FollowsWithoutClear(a, b) =>
                          LET C == Concatenation(b)
                              sent == Unwrap(hs[b].relevant_history_with_prompt)
                          IN  /\ Occurs(RecordOf(hs[a]), C)
                              /\ Len(C) <= MAX_PROMPT_LEN =>
                                   sent = C /\ Occurs(RecordOf(hs[a]), sent)

\* The success reply of a chat was not delivered, the fallback was, and the
\* next chat of the user has the exchange in its prompt text.
C19_Witness ==
    \E a, b \in Slots :
        /\ FollowsWithoutClear(a, b)
        /\ ReplyUndelivered(hs[a])
        /\ LastCallIs(hs[a], FailureCall(hs[a].ev), AnErrorOccurred)
        /\ hs[a].out[Len(hs[a].out)].ok
        /\ Occurs(RecordOf(hs[a]), Unwrap(hs[b].relevant_history_with_prompt))

====
